---- MODULE Spec2Model ----
(***************************************************************************)
(* Model of kivy/uix/vkeyboard.py (class VKeyboard): the layout-to-geometry *)
(* engine, the hit-tester and the multi-touch key-state machine.           *)
(*                                                                         *)
(* Numbers.  The source computes with Python floats.  The model computes   *)
(* the same expressions exactly, as fractions with a fixed denominator:    *)
(* margins are numerators over MarginDen, x hints are numerators over      *)
(* XDen(layout) = MarginDen * cols, y hints numerators over                *)
(* YDen(layout) = MarginDen * rows.  int() is Trunc (towards zero).        *)
(* A float product can fall just below the exact value, so a pixel of      *)
(* LINE_n can be one less than here, and a point exactly on the border of  *)
(* two keys can go to the other key; no property below rests on either.    *)
(*                                                                         *)
(* Environment.  Touches are delivered one event at a time (touch-down,    *)
(* touch-up), a grabbed touch may also be cancelled by the delivery system *)
(* (no handler of the widget runs), and the two Clock triggers created in  *)
(* __init__ run their callback on a later frame.  The keyboard has a       *)
(* target attached (VKeyboard.target), which receives what send() emits.   *)
(* The application may assign layout, size, margin_hint and key_margin at  *)
(* any time; the layout may be a name that no layout file registered.      *)
(*                                                                         *)
(* Specifications.  Spec and SpecDelivered: the default keyboard and its   *)
(* touches.  SpecGeometry: keyboards of several layouts, sizes and margins *)
(* that stay as constructed.  SpecWidget: the layout, the size and the     *)
(* margins change while the keyboard is used.                              *)
(***************************************************************************)
EXTENDS Integers, Sequences, FiniteSets, TLC

VARIABLES
    layout,           \* VKeyboard.layout (name of the selected layout)
    layout_mode,      \* VKeyboard.layout_mode
    layout_geometry,  \* VKeyboard.layout_geometry (U_HINT, LINE_HINT_n, LINE_n)
    have_capslock,    \* VKeyboard.have_capslock
    have_shift,       \* VKeyboard.have_shift
    active_keys,      \* VKeyboard.active_keys: uid -> (line_nb, key_index)
    touches,          \* the touches of the delivery system, by touch.uid
    mode_trigger,     \* _trigger_update_layout_mode is scheduled
    layout_trigger,   \* _trigger_load_layout is scheduled
    last,             \* what the handler that ran last did, in program order
    size,             \* VKeyboard.size: (width, height) in pixels
    margin_hint,      \* VKeyboard.margin_hint: (top, right, bottom, left) over MarginDen
    key_margin        \* VKeyboard.key_margin: (top, right, bottom, left) in pixels

vars == <<layout, layout_mode, layout_geometry, have_capslock, have_shift,
          active_keys, touches, mode_trigger, layout_trigger, last,
          size, margin_hint, key_margin>>

\* the styling properties no handler of VKeyboard writes
config == <<size, margin_hint, key_margin>>

----------------------------------------------------------------------------
(* Bounds *)

MaxTouches == 2

TouchIds == 1..MaxTouches

\* the touches delivered while the layout, the size or the margins vary
MaxWidgetTouches == 1

WidgetTouchIds == 1..MaxWidgetTouches

\* the touches delivered to a keyboard of a fixed layout, size and margins
MaxGeometryTouches == 2

GeometryTouchIds == 1..MaxGeometryTouches

----------------------------------------------------------------------------
(* Program constants *)

\* the reserved id of the capslock entry of active_keys (uid = -1)
Sentinel == -1

\* margin_hint = [.05, .06, .05, .06] is in hundredths
MarginDen == 100

\* margin_hint = ListProperty([.05, .06, .05, .06])
default_margin_hint == <<5, 6, 5, 6>>

\* key_margin = ListProperty([2, 2, 2, 2])
default_key_margin == <<2, 2, 2, 2>>

\* kwargs.setdefault('size', (700, 200))
default_size == <<700, 200>>

\* the sizes, margins and key margins a keyboard is given
Sizes == {default_size, <<500, 100>>}

MarginHints == {default_margin_hint, <<10, 10, 10, 10>>}

KeyMargins == {default_key_margin, <<0, 0, 0, 0>>}

\* the actions that process_key_on does not send to the target
NoSendActions == {"shift_L", "shift_R", "capslock", "layout"}

ShiftActions == {"shift_L", "shift_R"}

----------------------------------------------------------------------------
(* Layout tables (available_layouts): the parsed JSON of a layout.  A key  *)
(* is (displayed_char, internal, special_char, size); special_char "None"  *)
(* is Python's None.                                                       *)

Key(d, i, s, w) == [displayed_char |-> d, internal |-> i, special_char |-> s, size |-> w]

NoKey == Key("", "", "None", 0)

available_layouts ==
    [qwerty |->
        [rows |-> 2, cols |-> 5,
         lines |->
           [normal |-> << << Key("a", "a", "None", 1), Key("b", "b", "None", 1),
                             Key("<-", "", "backspace", 2), Key("CAPS", "", "capslock", 1) >>,
                          << Key("SHIFT", "", "shift_L", 1), Key(" ", " ", "None", 2),
                             Key("LAYOUT", "", "layout", 1), Key("SHIFT", "", "shift_R", 1) >> >>,
            shift  |-> << << Key("A", "A", "None", 1), Key("B", "B", "None", 1),
                             Key("<-", "", "backspace", 2), Key("CAPS", "", "capslock", 1) >>,
                          << Key("SHIFT", "", "shift_L", 1), Key(" ", " ", "None", 2),
                             Key("LAYOUT", "", "layout", 1), Key("SHIFT", "", "shift_R", 1) >> >>]],
     \* a layout with three keys a line, whose first line is narrower than
     \* cols and has other width units in its shift variant
     azerty |->
        [rows |-> 2, cols |-> 5,
         lines |->
           [normal |-> << << Key("q", "q", "None", 1), Key("w", "w", "None", 2),
                             Key("e", "e", "None", 1) >>,
                          << Key("SHIFT", "", "shift_L", 1), Key(" ", " ", "None", 3),
                             Key("SHIFT", "", "shift_R", 1) >> >>,
            shift  |-> << << Key("Q", "Q", "None", 2), Key("W", "W", "None", 1),
                             Key("E", "E", "None", 1) >>,
                          << Key("SHIFT", "", "shift_L", 1), Key(" ", " ", "None", 3),
                             Key("SHIFT", "", "shift_R", 1) >> >>]]]

\* value in available_layouts
Registered == DOMAIN available_layouts

\* the names a layout is requested by; "doesnotexist" is not registered
LayoutNames == {"qwerty", "azerty", "doesnotexist"}

\* layout['%s_%d' % (mode, line_nb)]
LayoutLine(lay, mode, line_nb) == lay.lines[mode][line_nb]

XDen(lay) == MarginDen * lay.cols

YDen(lay) == MarginDen * lay.rows

----------------------------------------------------------------------------
(* Arithmetic helpers *)

\* Python's int() of the fraction n/d (d > 0): truncation towards zero
Trunc(n, d) == IF n >= 0 THEN n \div d ELSE -((-n) \div d)

RECURSIVE SumSizes(_, _)
\* the sum of key[3] over the first n keys of a line
SumSizes(line, n) == IF n = 0 THEN 0 ELSE SumSizes(line, n - 1) + line[n].size

----------------------------------------------------------------------------
(* GeometryCompiler *)

\* variant: current_y_hint starts at the bottom margin and grows line by line
refresh_keys_hint_bottom_up(name, mode) ==
    LET lay == available_layouts[name]
        mtop == margin_hint[1]
        mright == margin_hint[2]
        mbottom == margin_hint[3]
        mleft == margin_hint[4]
        el_hint == MarginDen - mleft - mright
        eh_hint == MarginDen - mtop - mbottom
        ex_hint == mleft * lay.cols
        ey_hint == mbottom * lay.rows
        uw_hint == el_hint
        uh_hint == eh_hint
        LineHint(line_nb) ==
            LET line == LayoutLine(lay, mode, line_nb)
                current_y_hint == ey_hint + (line_nb - 1) * uh_hint
            IN  [k \in 1..Len(line) |->
                    [pos  |-> <<ex_hint + SumSizes(line, k - 1) * uw_hint, current_y_hint>>,
                     size |-> <<line[k].size * uw_hint, uh_hint>>]]
    IN  [U_HINT |-> <<uw_hint, uh_hint>>,
         LINE_HINT |-> [line_nb \in 1..lay.rows |-> LineHint(line_nb)]]

\* refresh_keys_hint: U_HINT and LINE_HINT_n of the layout `name`, read in
\* the rows of `mode` (line_name = '%s_%d' % (self.layout_mode, line_nb)).
\* A hint is [pos |-> (x, y), size |-> (w, h)]; x and w are numerators over
\* XDen, y and h numerators over YDen.
refresh_keys_hint(name, mode) ==
    LET lay == available_layouts[name]
        mtop == margin_hint[1]
        mright == margin_hint[2]
        mbottom == margin_hint[3]
        mleft == margin_hint[4]
        el_hint == MarginDen - mleft - mright
        eh_hint == MarginDen - mtop - mbottom
        ex_hint == mleft * lay.cols
        ey_hint == mbottom * lay.rows
        uw_hint == el_hint
        uh_hint == eh_hint
        LineHint(line_nb) ==
            LET line == LayoutLine(lay, mode, line_nb)
                current_y_hint == ey_hint + eh_hint * lay.rows - line_nb * uh_hint
            IN  [k \in 1..Len(line) |->
                    [pos  |-> <<ex_hint + SumSizes(line, k - 1) * uw_hint, current_y_hint>>,
                     size |-> <<line[k].size * uw_hint, uh_hint>>]]
    IN  [U_HINT |-> <<uw_hint, uh_hint>>,
         LINE_HINT |-> [line_nb \in 1..lay.rows |-> LineHint(line_nb)]]

\* refresh_keys: LINE_n, the pixel rectangles [pos |-> (kx, ky),
\* size |-> (kw, kh)] of the hints `hints` of layout `name` for the widget
\* size and the key margins.
refresh_keys(name, hints) ==
    LET lay == available_layouts[name]
        w == size[1]
        h == size[2]
        kmtop == key_margin[1]
        kmright == key_margin[2]
        kmbottom == key_margin[3]
        kmleft == key_margin[4]
        Pixel(key) ==
            [pos  |-> <<Trunc(key.pos[1] * w + kmleft * XDen(lay), XDen(lay)),
                        Trunc(key.pos[2] * h + kmbottom * YDen(lay), YDen(lay))>>,
             size |-> <<Trunc(key.size[1] * w - (kmleft + kmright) * XDen(lay), XDen(lay)),
                        Trunc(key.size[2] * h - (kmbottom + kmtop) * YDen(lay), YDen(lay))>>]
    IN  [line_nb \in 1..lay.rows |->
            [k \in 1..Len(hints[line_nb]) |-> Pixel(hints[line_nb][k])]]

\* refresh(force): the layout_geometry after refresh; force recompiles the
\* hints, refresh_keys always recompiles the pixels.
refresh(force, name, mode, geometry) ==
    LET hinted == IF force THEN refresh_keys_hint(name, mode)
                  ELSE [U_HINT |-> geometry.U_HINT, LINE_HINT |-> geometry.LINE_HINT]
    IN  [U_HINT |-> hinted.U_HINT,
         LINE_HINT |-> hinted.LINE_HINT,
         LINE |-> refresh_keys(name, hinted.LINE_HINT)]

----------------------------------------------------------------------------
(* HitTester.  Points are in the widget's local coordinates (the result of *)
(* to_local), in pixels.                                                   *)

\* Scatter.collide_point: the local point is within the widget's box
collide_point(x, y) == 0 <= x /\ x <= size[1] /\ 0 <= y /\ y <= size[2]

\* variant: the four comparisons taken as >= and <=
touch_is_in_margin_closed(x, y) ==
    LET w == size[1]
        h == size[2]
        mtop == margin_hint[1]
        mright == margin_hint[2]
        mbottom == margin_hint[3]
        mleft == margin_hint[4]
    IN  ~ ( /\ x * MarginDen >= mleft * w
            /\ x * MarginDen <= (MarginDen - mright) * w
            /\ y * MarginDen >= mbottom * h
            /\ y * MarginDen <= (MarginDen - mtop) * h )

\* touch_is_in_margin: FALSE only strictly inside (left, 1-right) x (bottom, 1-top)
touch_is_in_margin(x, y) ==
    LET w == size[1]
        h == size[2]
        mtop == margin_hint[1]
        mright == margin_hint[2]
        mbottom == margin_hint[3]
        mleft == margin_hint[4]
    IN  ~ ( /\ x * MarginDen > mleft * w
            /\ x * MarginDen < (MarginDen - mright) * w
            /\ y * MarginDen > mbottom * h
            /\ y * MarginDen < (MarginDen - mtop) * h )

\* variant: lines counted from the bottom of the widget
LineAt_bottom_up(lay, y) ==
    LET h == size[2]
        mtop == margin_hint[1]
        mbottom == margin_hint[3]
        line_nb == 1 + Trunc((MarginDen * y - mbottom * h) * lay.rows,
                             h * (MarginDen - mbottom - mtop))
    IN  IF line_nb > lay.rows THEN lay.rows
        ELSE IF line_nb < 1 THEN 1
        ELSE line_nb

\* the line of get_key_at_pos: layout_rows - int(y / line_height), clamped
LineAt(lay, y) ==
    LET h == size[2]
        mtop == margin_hint[1]
        mbottom == margin_hint[3]
        line_nb == lay.rows - Trunc((MarginDen * y - mbottom * h) * lay.rows,
                                    h * (MarginDen - mbottom - mtop))
    IN  IF line_nb > lay.rows THEN lay.rows
        ELSE IF line_nb < 1 THEN 1
        ELSE line_nb

\* the keys of a line of hints whose [x_hint, x_hint + w_hint) holds x / w
KeysAt(lay, line_hint, x) ==
    { k \in 1..Len(line_hint) :
        /\ x * XDen(lay) >= line_hint[k].pos[1] * size[1]
        /\ x * XDen(lay) < (line_hint[k].pos[1] + line_hint[k].size[1]) * size[1] }

Min(S) == CHOOSE m \in S : \A n \in S : m <= n

\* get_key_at_pos: [found, key, pos, raised]; found = FALSE is Python's
\* None, pos = (line_nb, key_index) with key_index counted from 0 as in the
\* source, and raised names the exception of a failed lookup ("" if none):
\* available_layouts[self.layout] of a name that is not registered,
\* layout_geometry['LINE_HINT_%d'] of a line never compiled, or
\* layout[...][key_index] past the end of the line of the current mode.
get_key_at_pos(x, y, name, mode, geometry) ==
    LET lay == available_layouts[name]
        line_nb == LineAt(lay, y)
        hits == KeysAt(lay, geometry.LINE_HINT[line_nb], x)
        none == [found |-> FALSE, key |-> NoKey, pos |-> <<0, 0>>, raised |-> ""]
    IN  IF name \notin Registered THEN [none EXCEPT !.raised = "KeyError"]
        ELSE IF line_nb \notin DOMAIN geometry.LINE_HINT
        THEN [none EXCEPT !.raised = "KeyError"]
        ELSE IF hits = {} THEN none
        ELSE IF Min(hits) > Len(LayoutLine(lay, mode, line_nb))
        THEN [none EXCEPT !.raised = "IndexError"]
        ELSE [found |-> TRUE,
              key |-> LayoutLine(lay, mode, line_nb)[Min(hits)],
              pos |-> <<line_nb, Min(hits) - 1>>,
              raised |-> ""]

\* the centre pixel of a rectangle of LINE_n
Centre(rect) == <<rect.pos[1] + rect.size[1] \div 2, rect.pos[2] + rect.size[2] \div 2>>

\* the local points touches land on while the layout, the size or the
\* margins vary: the centres of the first and the last rectangle of every
\* line of layout_geometry, the four points where the middle lines of the
\* widget cross the edge of the margins, a point outside the widget, and a
\* point of the first line just left of the right margin
WidgetPoints ==
    LET w == size[1]
        h == size[2]
        mtop == margin_hint[1]
        mright == margin_hint[2]
        mbottom == margin_hint[3]
        mleft == margin_hint[4]
    IN  { Centre(layout_geometry.LINE[r][1]) : r \in DOMAIN layout_geometry.LINE }
        \cup { Centre(layout_geometry.LINE[r][Len(layout_geometry.LINE[r])]) :
                 r \in DOMAIN layout_geometry.LINE }
        \cup { <<(mleft * w) \div MarginDen, h \div 2>>,
                <<((MarginDen - mright) * w) \div MarginDen, h \div 2>>,
                <<w \div 2, (mbottom * h) \div MarginDen>>,
                <<w \div 2, ((MarginDen - mtop) * h) \div MarginDen>>,
                <<-10, h \div 2>>,
                <<((MarginDen - mright) * w) \div MarginDen - 2,
                  ((MarginDen - mtop) * h) \div MarginDen - 2>> }

\* the local points touches land on: the keys a, b, backspace, capslock
\* (line 1) and shift_L, layout, shift_R (line 2) of qwerty, a point of the
\* left margin and a point outside the widget
TouchPoints == { <<100, 150>>, <<200, 150>>, <<400, 150>>, <<600, 150>>,
                 <<100, 50>>, <<500, 50>>, <<600, 50>>,
                 <<20, 100>>, <<-10, 100>> }

----------------------------------------------------------------------------
(* ModeResolver *)

\* variant: the modifiers combined with or instead of !=
compute_mode_or(capslock, shift) == IF capslock \/ shift THEN "shift" ELSE "normal"

\* mode = self.have_capslock != self.have_shift; 'shift' if mode else 'normal'
compute_mode(capslock, shift) == IF capslock # shift THEN "shift" ELSE "normal"

----------------------------------------------------------------------------
(* KeyStateMachine *)

NoUd == [has |-> FALSE, key_data |-> NoKey, pos |-> <<0, 0>>]

IdleTouch == [state |-> "idle", grab |-> FALSE, ud |-> NoUd]

Handler(op, uid, effects, emitted, raised) ==
    [op |-> op, uid |-> uid, effects |-> effects, emitted |-> emitted, raised |-> raised]

\* active_keys[uid] = pos
SetKey(keys, uid, pos) ==
    [k \in DOMAIN keys \cup {uid} |-> IF k = uid THEN pos ELSE keys[k]]

\* active_keys.pop(uid, None)
PopKey(keys, uid) == [k \in DOMAIN keys \ {uid} |-> keys[k]]

\* refresh_active_keys_layer draws layout_geometry['LINE_%d' % line_nb][index]
\* of every active key: TRUE when every lookup succeeds (nothing is raised)
refresh_active_keys_layer(keys, geometry) ==
    \A k \in DOMAIN keys :
        /\ keys[k][1] \in DOMAIN geometry.LINE
        /\ keys[k][2] + 1 \in DOMAIN geometry.LINE[keys[k][1]]

\* draw_keys reads layout[layout_mode + '_' + str(line_nb)][key_nb][0] for
\* every rectangle of LINE_n: TRUE when every lookup succeeds
draw_keys(name, mode, lines) ==
    \A line_nb \in 1..available_layouts[name].rows :
        /\ line_nb \in DOMAIN lines
        /\ Len(lines[line_nb]) <= Len(LayoutLine(available_layouts[name], mode, line_nb))

\* refresh(force) as a handler runs it: the layout_geometry it leaves and
\* the exception that ended it ("" if none).  The lookups of
\* refresh_keys_hint and refresh_keys raise KeyError before anything is
\* written; draw_keys and refresh_active_keys_layer raise after the pixels
\* are written.
do_refresh(force, name, mode, geometry, keys) ==
    IF name \notin Registered
    THEN [geometry |-> geometry, raised |-> "KeyError"]
    ELSE IF ~force /\ \E line_nb \in 1..available_layouts[name].rows :
                          line_nb \notin DOMAIN geometry.LINE_HINT
    THEN [geometry |-> geometry, raised |-> "KeyError"]
    ELSE LET g == refresh(force, name, mode, geometry)
         IN  [geometry |-> g,
              raised |-> IF ~draw_keys(name, mode, g.LINE) THEN "IndexError"
                         ELSE IF ~refresh_active_keys_layer(keys, g) THEN "LookupError"
                         ELSE ""]

\* variant: 'layout' left out of the actions that are not sent
SendsKey_layout(special_char) == special_char \notin {"shift_L", "shift_R", "capslock"}

\* process_key_on: the key is sent to the target unless its action is one of
\* shift_L, shift_R, capslock, layout
SendsKey(special_char) == special_char \notin NoSendActions

\* process_key_on: the id the key is saved under in active_keys
key_on_uid(uid, special_char) == IF special_char = "capslock" THEN Sentinel ELSE uid

\* variant: every key removed under the reserved id
key_up_uid_sentinel(uid, special_char) == Sentinel

\* process_key_up: the id the key is removed from active_keys under
key_up_uid(uid, special_char) == IF special_char = "capslock" THEN Sentinel ELSE uid

\* variant: the test of have_capslock negated
ReinsertSentinel_off(special_char, capslock) == special_char = "capslock" /\ ~capslock

\* process_key_up: the capslock entry is put back while capslock is on
ReinsertSentinel(special_char, capslock) == special_char = "capslock" /\ capslock

\* process_key_on(touch) at the local point (x, y): the fields it leaves,
\* its effects in program order, and the exception that ended it ("" if none).
\* change_layout() is assert(0): a touch on a layout key raises
\* AssertionError before the key is saved in active_keys.
process_key_on(uid, x, y) ==
    LET key == get_key_at_pos(x, y, layout, layout_mode, layout_geometry)
        special_char == key.key.special_char
        sends == SendsKey(special_char)
        capslock == IF special_char = "capslock" THEN ~have_capslock ELSE have_capslock
        shift == IF special_char \in ShiftActions THEN TRUE ELSE have_shift
        keys == SetKey(active_keys, key_on_uid(uid, special_char), key.pos)
        drawn == refresh_active_keys_layer(keys, layout_geometry)
        raised == IF special_char = "layout" THEN "AssertionError"
                  ELSE IF ~drawn THEN "LookupError"
                  ELSE ""
    IN  IF ~key.found
        THEN [ud |-> NoUd, have_capslock |-> have_capslock, have_shift |-> have_shift,
              active_keys |-> active_keys, effects |-> <<>>, emitted |-> <<>>,
              raised |-> key.raised]
        ELSE [ud |-> [has |-> TRUE, key_data |-> key.key, pos |-> key.pos],
              have_capslock |-> capslock,
              have_shift |-> shift,
              active_keys |-> IF special_char = "layout" THEN active_keys ELSE keys,
              effects |-> <<"ud">>
                          \o (IF sends THEN <<"send">> ELSE <<>>)
                          \o (IF special_char = "capslock" THEN <<"have_capslock">> ELSE <<>>)
                          \o (IF special_char \in ShiftActions THEN <<"have_shift">> ELSE <<>>)
                          \o (IF special_char = "layout" THEN <<"change_layout">>
                              ELSE <<"active_keys", "refresh_active_keys_layer">>),
              emitted |-> IF sends THEN <<key.key>> ELSE <<>>,
              raised |-> raised]

\* variant: the test of touch.ud left out
UdMissing_never(ud) == FALSE

\* process_key_up: if self.uid not in touch.ud: return
UdMissing(ud) == ~ud.has

\* process_key_up(touch): the fields it leaves and its effects in program
\* order; touch.ud[self.uid] of a touch without it raises KeyError
process_key_up(uid, ud) ==
    LET special_char == ud.key_data.special_char
        id == key_up_uid(uid, special_char)
        popped == PopKey(active_keys, id)
        keys == IF ReinsertSentinel(special_char, have_capslock)
                THEN SetKey(popped, Sentinel, ud.pos) ELSE popped
        drawn == refresh_active_keys_layer(keys, layout_geometry)
    IN  IF UdMissing(ud)
        THEN [have_shift |-> have_shift, active_keys |-> active_keys,
              effects |-> <<>>, raised |-> ""]
        ELSE IF ~ud.has
        THEN [have_shift |-> have_shift, active_keys |-> active_keys,
              effects |-> <<>>, raised |-> "KeyError"]
        ELSE IF id \notin DOMAIN active_keys
        THEN [have_shift |-> have_shift, active_keys |-> active_keys,
              effects |-> <<>>, raised |-> ""]
        ELSE [have_shift |-> IF special_char \in ShiftActions THEN FALSE ELSE have_shift,
              active_keys |-> keys,
              effects |-> <<"active_keys">>
                          \o (IF special_char \in ShiftActions THEN <<"have_shift">> ELSE <<>>)
                          \o (IF ReinsertSentinel(special_char, have_capslock)
                              THEN <<"active_keys">> ELSE <<>>)
                          \o <<"refresh_active_keys_layer">>,
              raised |-> IF drawn THEN "" ELSE "LookupError"]

----------------------------------------------------------------------------
(* The state after VKeyboard.__init__: the layout is set, both triggers    *)
(* are scheduled, the hints and the pixels are compiled.                   *)

NoGeometry == [U_HINT |-> <<0, 0>>, LINE_HINT |-> <<>>, LINE |-> <<>>]

\* VKeyboard(layout=name, size=sz, margin_hint=mh, key_margin=km).  With a
\* name that is not registered refresh_keys_hint() raises KeyError in
\* __init__ (the fallback of _load_layout is only scheduled): no keyboard
\* is constructed.
Construct(name, sz, mh, km) ==
    /\ layout = name
    /\ size = sz
    /\ margin_hint = mh
    /\ key_margin = km
    /\ layout_mode = "normal"
    /\ IF name \in Registered
       THEN /\ layout_geometry = refresh(TRUE, name, "normal", NoGeometry)
            /\ last = Handler("__init__", 0, <<"refresh_keys_hint", "refresh_keys">>, <<>>, "")
       ELSE /\ layout_geometry = NoGeometry
            /\ last = Handler("__init__", 0, <<>>, <<>>, "KeyError")
    /\ have_capslock = FALSE
    /\ have_shift = FALSE
    /\ active_keys = [k \in {} |-> <<0, 0>>]
    /\ touches = [t \in TouchIds |-> IdleTouch]
    /\ mode_trigger = TRUE
    /\ layout_trigger = TRUE

\* __init__ returned a keyboard
Constructed == ~(last.op = "__init__" /\ last.raised # "")

Init == Construct("qwerty", default_size, default_margin_hint, default_key_margin)

\* on_touch_down(touch) of a new touch at a local point p.  touch.uid counts
\* up, so touch t starts after touch t - 1.
on_touch_down(t, p) ==
    /\ Constructed
    /\ touches[t].state = "idle"
    /\ t > 1 => touches[t - 1].state # "idle"
    /\ IF ~collide_point(p[1], p[2])
       THEN /\ touches' = [touches EXCEPT ![t] = [IdleTouch EXCEPT !.state = "down"]]
            /\ last' = Handler("on_touch_down", t, <<>>, <<>>, "")
            /\ UNCHANGED <<have_capslock, have_shift, active_keys, mode_trigger>>
       ELSE IF ~touch_is_in_margin(p[1], p[2])
       THEN LET r == process_key_on(t, p[1], p[2])
            IN  /\ touches' = [touches EXCEPT ![t] =
                                  [state |-> "down", grab |-> r.raised = "", ud |-> r.ud]]
                /\ have_capslock' = r.have_capslock
                /\ have_shift' = r.have_shift
                /\ active_keys' = r.active_keys
                /\ mode_trigger' = (mode_trigger \/ r.have_capslock # have_capslock
                                                 \/ r.have_shift # have_shift)
                /\ last' = Handler("on_touch_down", t,
                                   r.effects \o (IF r.raised = "" THEN <<"grab">> ELSE <<>>),
                                   r.emitted, r.raised)
       ELSE \E g \in BOOLEAN :
                \* Scatter.on_touch_down may grab the touch for the transform
                /\ touches' = [touches EXCEPT ![t] =
                                  [state |-> "down", grab |-> g, ud |-> NoUd]]
                /\ last' = Handler("on_touch_down", t,
                                   IF g THEN <<"grab">> ELSE <<>>, <<>>, "")
                /\ UNCHANGED <<have_capslock, have_shift, active_keys, mode_trigger>>
    /\ UNCHANGED <<layout, layout_mode, layout_geometry, layout_trigger, config>>

\* on_touch_up(touch) of a touch that is down
on_touch_up(t) ==
    /\ Constructed
    /\ touches[t].state = "down"
    /\ touches' = [touches EXCEPT ![t].state = "up"]
    /\ IF touches[t].grab
       THEN LET r == process_key_up(t, touches[t].ud)
            IN  /\ have_shift' = r.have_shift
                /\ active_keys' = r.active_keys
                /\ mode_trigger' = (mode_trigger \/ r.have_shift # have_shift)
                /\ last' = Handler("on_touch_up", t, r.effects, <<>>, r.raised)
       ELSE /\ last' = Handler("on_touch_up", t, <<>>, <<>>, "")
            /\ UNCHANGED <<have_shift, active_keys, mode_trigger>>
    /\ UNCHANGED <<layout, layout_mode, layout_geometry, have_capslock, layout_trigger,
                   config>>

\* the delivery system cancels a touch the keyboard grabbed: the touch ends
\* and no touch-up is delivered; VKeyboard has no handler for it
cancel(t) ==
    /\ Constructed
    /\ touches[t].state = "down"
    /\ touches[t].grab
    /\ touches' = [touches EXCEPT ![t].state = "cancelled"]
    /\ last' = Handler("cancel", t, <<>>, <<>>, "")
    /\ UNCHANGED <<layout, layout_mode, layout_geometry, have_capslock, have_shift,
                   active_keys, mode_trigger, layout_trigger, config>>

\* the Clock runs the scheduled _update_layout_mode
_update_layout_mode ==
    /\ Constructed
    /\ mode_trigger
    /\ mode_trigger' = FALSE
    /\ LET mode == compute_mode(have_capslock, have_shift)
           r == do_refresh(FALSE, layout, mode, layout_geometry, active_keys)
       IN  IF mode # layout_mode
           THEN /\ layout_mode' = mode
                /\ layout_geometry' = r.geometry
                /\ last' = Handler("_update_layout_mode", 0, <<"layout_mode", "refresh">>, <<>>,
                                   r.raised)
           ELSE /\ last' = Handler("_update_layout_mode", 0, <<>>, <<>>, "")
                /\ UNCHANGED <<layout_mode, layout_geometry>>
    /\ UNCHANGED <<layout, have_capslock, have_shift, active_keys, touches, layout_trigger,
                   config>>

\* the Clock runs the scheduled _load_layout
_load_layout ==
    /\ Constructed
    /\ layout_trigger
    /\ LET value == IF layout \notin Registered /\ layout # "qwerty"
                    THEN "qwerty" ELSE layout
           r == do_refresh(TRUE, value, layout_mode, layout_geometry, active_keys)
       IN  /\ layout' = value
           /\ layout_trigger' = (value # layout)
           /\ layout_geometry' = r.geometry
           /\ last' = Handler("_load_layout", 0,
                              (IF value # layout THEN <<"Logger.error", "layout">> ELSE <<>>)
                              \o <<"refresh">>,
                              <<>>, r.raised)
    /\ UNCHANGED <<layout_mode, have_capslock, have_shift, active_keys, touches, mode_trigger,
                   config>>

\* the application assigns VKeyboard.layout; the property schedules
\* _load_layout when its value changes
set_layout(name) ==
    /\ Constructed
    /\ name # layout
    /\ layout' = name
    /\ layout_trigger' = TRUE
    /\ last' = Handler("set_layout", 0, <<"layout">>, <<>>, "")
    /\ UNCHANGED <<layout_mode, layout_geometry, have_capslock, have_shift, active_keys,
                   touches, mode_trigger, config>>

\* the host resizes the widget; __init__ binds nothing to size
set_size(sz) ==
    /\ Constructed
    /\ sz # size
    /\ size' = sz
    /\ last' = Handler("set_size", 0, <<"size">>, <<>>, "")
    /\ UNCHANGED <<layout, layout_mode, layout_geometry, have_capslock, have_shift,
                   active_keys, touches, mode_trigger, layout_trigger, margin_hint,
                   key_margin>>

\* the application assigns VKeyboard.margin_hint; __init__ binds nothing to it
set_margin_hint(mh) ==
    /\ Constructed
    /\ mh # margin_hint
    /\ margin_hint' = mh
    /\ last' = Handler("set_margin_hint", 0, <<"margin_hint">>, <<>>, "")
    /\ UNCHANGED <<layout, layout_mode, layout_geometry, have_capslock, have_shift,
                   active_keys, touches, mode_trigger, layout_trigger, size, key_margin>>

\* the application assigns VKeyboard.key_margin; __init__ binds nothing to it
set_key_margin(km) ==
    /\ Constructed
    /\ km # key_margin
    /\ key_margin' = km
    /\ last' = Handler("set_key_margin", 0, <<"key_margin">>, <<>>, "")
    /\ UNCHANGED <<layout, layout_mode, layout_geometry, have_capslock, have_shift,
                   active_keys, touches, mode_trigger, layout_trigger, size, margin_hint>>

TouchDown == \E t \in TouchIds, p \in TouchPoints : on_touch_down(t, p)

TouchUp == \E t \in TouchIds : on_touch_up(t)

Cancel == \E t \in TouchIds : cancel(t)

Next == TouchDown \/ TouchUp \/ Cancel \/ _update_layout_mode \/ _load_layout

Spec == Init /\ [][Next]_vars

\* the delivery system ends every touch with a touch-up (no cancellation)
NextDelivered == TouchDown \/ TouchUp \/ _update_layout_mode \/ _load_layout

SpecDelivered == Init /\ [][NextDelivered]_vars

WidgetTouchDown == \E t \in WidgetTouchIds, p \in WidgetPoints : on_touch_down(t, p)

WidgetTouchUp == \E t \in WidgetTouchIds : on_touch_up(t)

\* the sizes, margins and key margins keyboards are constructed with: every
\* pair of values of two of the three occurs
GeometryConfigs ==
    { <<default_size, default_margin_hint, default_key_margin>>,
      <<default_size, <<10, 10, 10, 10>>, <<0, 0, 0, 0>>>>,
      <<<<500, 100>>, default_margin_hint, <<0, 0, 0, 0>>>>,
      <<<<500, 100>>, <<10, 10, 10, 10>>, default_key_margin>> }

\* the keyboard is constructed with any registered layout and any of the
\* sizes, margins and key margins, which then stay as they are
InitGeometry ==
    \E name \in Registered, c \in GeometryConfigs : Construct(name, c[1], c[2], c[3])

GeometryTouchDown == \E t \in GeometryTouchIds, p \in WidgetPoints : on_touch_down(t, p)

GeometryTouchUp == \E t \in GeometryTouchIds : on_touch_up(t)

NextGeometry == GeometryTouchDown \/ GeometryTouchUp \/ _update_layout_mode \/ _load_layout

SpecGeometry == InitGeometry /\ [][NextGeometry]_vars

SetLayout == \E name \in LayoutNames : set_layout(name)

SetSize == \E sz \in Sizes : set_size(sz)

SetMarginHint == \E mh \in MarginHints : set_margin_hint(mh)

SetKeyMargin == \E km \in KeyMargins : set_key_margin(km)

\* the keyboard is constructed with any requested layout name, and the
\* layout, the size and the margins are changed while it is used
InitWidget ==
    \E name \in LayoutNames :
        Construct(name, default_size, default_margin_hint, default_key_margin)

NextWidget ==
    \/ WidgetTouchDown \/ WidgetTouchUp \/ _update_layout_mode \/ _load_layout
    \/ SetLayout \/ SetSize \/ SetMarginHint \/ SetKeyMargin

SpecWidget == InitWidget /\ [][NextWidget]_vars

TypeOK ==
    /\ layout \in LayoutNames
    /\ size \in Sizes
    /\ margin_hint \in MarginHints
    /\ key_margin \in KeyMargins
    /\ layout_mode \in {"normal", "shift"}
    /\ have_capslock \in BOOLEAN
    /\ have_shift \in BOOLEAN
    /\ DOMAIN active_keys \subseteq TouchIds \cup {Sentinel}
    /\ \A t \in TouchIds : touches[t].state \in {"idle", "down", "up", "cancelled"}

----------------------------------------------------------------------------
(* Vocabulary of the properties *)

HasSentinel == Sentinel \in DOMAIN active_keys

\* touch t is down on a key it resolved
DownOnKey(t) == touches[t].state = "down" /\ touches[t].ud.has

SpecialOf(t) == touches[t].ud.key_data.special_char

NoTouchDown == \A t \in TouchIds : touches[t].state # "down"

OnlyTouchDown(t) == \A u \in TouchIds : touches[u].state = "down" <=> u = t

\* the exclusive-or of the modifiers, as a mode name
XorMode(shift, capslock) ==
    IF (shift /\ ~capslock) \/ (~shift /\ capslock) THEN "shift" ELSE "normal"

\* the position of the first "send" among the effects, 0 if there is none
FirstSend(effects) ==
    IF \E i \in DOMAIN effects : effects[i] = "send"
    THEN Min({i \in DOMAIN effects : effects[i] = "send"})
    ELSE 0

----------------------------------------------------------------------------
(* C1: in every reachable state the sentinel id -1 is in active_keys if    *)
(* and only if have_capslock is true.                                      *)
C1_SentinelIffCapslock == HasSentinel <=> have_capslock

(* C2: have_shift is true exactly while at least one touch that resolved   *)
(* to a shift_L or shift_R key is still held down.                         *)
C2_ShiftWhileHeld ==
    have_shift <=> \E t \in TouchIds : DownOnKey(t) /\ SpecialOf(t) \in ShiftActions

(* C3: capslock persistence.  With no touch down and capslock off, a       *)
(* touch-down on the capslock key turns capslock on with the sentinel      *)
(* present; the touch-up of that touch, the only one down, leaves capslock *)
(* on and the sentinel present; with no touch down and capslock on, a      *)
(* second touch-down on the capslock key turns capslock off, and its       *)
(* touch-up leaves capslock off and the sentinel absent.  No entry is ever *)
(* stored under the real id of a touch that resolved to the capslock key.  *)
C3_CapslockPersistence ==
    /\ [] (\A t \in TouchIds :
              (touches[t].ud.has /\ SpecialOf(t) = "capslock") => t \notin DOMAIN active_keys)
    /\ [][\A t \in TouchIds :
            LET downOnCaps == /\ touches[t].state = "idle"
                              /\ touches'[t].state = "down"
                              /\ touches'[t].ud.has
                              /\ touches'[t].ud.key_data.special_char = "capslock"
                upOfCaps == /\ OnlyTouchDown(t)
                            /\ touches[t].ud.has
                            /\ SpecialOf(t) = "capslock"
                            /\ touches'[t].state = "up"
            IN  /\ (NoTouchDown /\ ~have_capslock /\ downOnCaps)
                      => (have_capslock' /\ HasSentinel')
                /\ (upOfCaps /\ have_capslock)
                      => (have_capslock' /\ HasSentinel')
                /\ (NoTouchDown /\ have_capslock /\ downOnCaps)
                      => ~have_capslock'
                /\ (upOfCaps /\ ~have_capslock)
                      => (~have_capslock' /\ ~HasSentinel')]_vars

\* two capslock touches have gone down and up one after the other: capslock
\* is off again and the sentinel is gone
C3_Witness ==
    /\ \A t \in {1, 2} : touches[t].state = "up" /\ touches[t].ud.has
                         /\ SpecialOf(t) = "capslock"
    /\ last.op = "on_touch_up"
    /\ ~have_capslock
    /\ ~HasSentinel

(* C4: when the mode resolver has run, layout_mode is 'shift' if exactly   *)
(* one of have_shift and have_capslock is true and 'normal' otherwise.     *)
C4_ModeIsXor ==
    last.op = "_update_layout_mode" => layout_mode = XorMode(have_shift, have_capslock)

\* the resolver ran with shift held and capslock on
C4_Witness ==
    /\ last.op = "_update_layout_mode"
    /\ have_shift
    /\ have_capslock
    /\ layout_mode = "normal"

(* C5: the key a touch-down resolves is taken from the row list of the     *)
(* mode have_shift XOR have_capslock, as the modifiers stand at that       *)
(* touch-down, whatever the interleaving with the mode-update step.        *)
C5_KeyFromXorMode ==
    [][\A t \in TouchIds :
          (touches[t].state = "idle" /\ touches'[t].state = "down" /\ touches'[t].ud.has)
          => touches'[t].ud.key_data =
                LayoutLine(available_layouts[layout],
                           XorMode(have_shift, have_capslock),
                           touches'[t].ud.pos[1])[touches'[t].ud.pos[2] + 1]]_vars

(* C6: two touches down at the same time on different character keys each *)
(* emit their own activation event and have their own active_keys entry,   *)
(* and the touch-up of one removes only its own entry and leaves the other *)
(* entry and the modifiers unchanged.                                      *)
C6_MultiTouchIndependence ==
    /\ [] (\A t \in TouchIds :
              (last.op = "on_touch_down" /\ last.uid = t /\ DownOnKey(t)
                  /\ SpecialOf(t) = "None")
              => /\ last.emitted = <<touches[t].ud.key_data>>
                 /\ t \in DOMAIN active_keys
                 /\ active_keys[t] = touches[t].ud.pos)
    /\ [] (\A t, u \in TouchIds :
              (t # u /\ DownOnKey(t) /\ DownOnKey(u)
                  /\ SpecialOf(t) = "None" /\ SpecialOf(u) = "None"
                  /\ touches[t].ud.pos # touches[u].ud.pos)
              => /\ {t, u} \subseteq DOMAIN active_keys
                 /\ active_keys[t] = touches[t].ud.pos
                 /\ active_keys[u] = touches[u].ud.pos)
    /\ [][\A t, u \in TouchIds :
            (t # u /\ DownOnKey(t) /\ DownOnKey(u)
                /\ SpecialOf(t) = "None" /\ SpecialOf(u) = "None"
                /\ touches[t].ud.pos # touches[u].ud.pos
                /\ touches'[t].state = "up")
            => /\ DOMAIN active_keys' = DOMAIN active_keys \ {t}
               /\ \A k \in DOMAIN active_keys' : active_keys'[k] = active_keys[k]
               /\ have_shift' = have_shift
               /\ have_capslock' = have_capslock
               /\ layout_mode' = layout_mode]_vars

\* one of two touches on different character keys has gone up, the other
\* is still down with its entry
C6_Witness ==
    \E t, u \in TouchIds :
        /\ t # u
        /\ last.op = "on_touch_up" /\ last.uid = t
        /\ touches[t].ud.has /\ SpecialOf(t) = "None"
        /\ DownOnKey(u) /\ SpecialOf(u) = "None"
        /\ touches[t].ud.pos # touches[u].ud.pos
        /\ t \notin DOMAIN active_keys
        /\ u \in DOMAIN active_keys

(* C7: a touch-down that resolves to a key whose action is none of         *)
(* shift_L, shift_R, capslock, layout emits exactly one activation event,  *)
(* before active_keys or a modifier is changed; a touch-down on a key with *)
(* one of these four actions emits none; a touch-up emits none.            *)
C7_EmitOnceFirst ==
    /\ \A t \in TouchIds :
          (last.op = "on_touch_down" /\ last.uid = t /\ touches[t].ud.has)
          => IF SpecialOf(t) \in {"shift_L", "shift_R", "capslock", "layout"}
             THEN last.emitted = <<>> /\ FirstSend(last.effects) = 0
             ELSE /\ last.emitted = <<touches[t].ud.key_data>>
                  /\ Cardinality({i \in DOMAIN last.effects : last.effects[i] = "send"}) = 1
                  /\ \A i \in DOMAIN last.effects :
                        last.effects[i] \in {"active_keys", "have_shift", "have_capslock"}
                        => FirstSend(last.effects) < i
    /\ last.op = "on_touch_up" => (last.emitted = <<>> /\ FirstSend(last.effects) = 0)

\* a touch-down on the backspace key has emitted its event and saved the key
C7_Witness ==
    \E t \in TouchIds :
        /\ last.op = "on_touch_down" /\ last.uid = t
        /\ DownOnKey(t) /\ SpecialOf(t) = "backspace"
        /\ Len(last.emitted) = 1
        /\ t \in DOMAIN active_keys

(* C8: every touch-down that resolves to a key whose action is not         *)
(* capslock records the key's (row, key_index) in active_keys under the    *)
(* touch's own id, layout keys included.                                   *)
C8_KeyRecorded ==
    \A t \in TouchIds :
        (last.op = "on_touch_down" /\ last.uid = t /\ touches[t].ud.has
            /\ SpecialOf(t) # "capslock")
        => (t \in DOMAIN active_keys /\ active_keys[t] = touches[t].ud.pos)

(* C9: every real touch id in active_keys belongs to a touch that is       *)
(* currently down.                                                         *)
C9_EntriesOfDownTouches ==
    \A id \in DOMAIN active_keys \ {Sentinel} : touches[id].state = "down"

(* C10: a cancelled touch is cleaned up as on touch-up: it has no entry in *)
(* active_keys, and once no touch is down no real-touch entry remains and  *)
(* have_shift is false.                                                    *)
C10_CancelCleansUp ==
    /\ \A t \in TouchIds : touches[t].state = "cancelled" => t \notin DOMAIN active_keys
    /\ NoTouchDown => (DOMAIN active_keys \subseteq {Sentinel} /\ ~have_shift)


----------------------------------------------------------------------------
(* Geometry, hit-testing and layout selection *)

\* the point p, normalised by the size, is not strictly inside the rectangle
\* (left, 1 - right) x (bottom, 1 - top) of the margins
OutsideOpen(p) ==
    \/ p[1] * MarginDen <= margin_hint[4] * size[1]
    \/ p[1] * MarginDen >= (MarginDen - margin_hint[2]) * size[1]
    \/ p[2] * MarginDen <= margin_hint[3] * size[2]
    \/ p[2] * MarginDen >= (MarginDen - margin_hint[1]) * size[2]

\* C11: a touch-down at a point outside the open rectangle of the margins,
\* the points on its edges included, resolves no key: nothing is emitted,
\* no key is saved on the touch, and active_keys, have_shift, have_capslock
\* and layout_mode stay as they were.
C11_MarginExclusion ==
    [][\A t \in GeometryTouchIds, p \in WidgetPoints :
          (OutsideOpen(p) /\ on_touch_down(t, p)) =>
              /\ last'.emitted = <<>>
              /\ last'.raised = ""
              /\ ~touches'[t].ud.has
              /\ active_keys' = active_keys
              /\ have_shift' = have_shift
              /\ have_capslock' = have_capslock
              /\ layout_mode' = layout_mode]_vars

\* the last touch-down took the margin branch (or missed the widget) while
\* a key is active, and the points tried include points on all four edges
C11_Witness ==
    /\ last.op = "on_touch_down"
    /\ last.effects = <<>>
    /\ last.raised = ""
    /\ touches[last.uid].state = "down"
    /\ ~touches[last.uid].grab
    /\ ~touches[last.uid].ud.has
    /\ have_capslock
    /\ \E p \in WidgetPoints : p[1] * MarginDen = margin_hint[4] * size[1] /\ collide_point(p[1], p[2])
    /\ \E p \in WidgetPoints : p[1] * MarginDen = (MarginDen - margin_hint[2]) * size[1]
    /\ \E p \in WidgetPoints : p[2] * MarginDen = margin_hint[3] * size[2]
    /\ \E p \in WidgetPoints : p[2] * MarginDen = (MarginDen - margin_hint[1]) * size[2]

\* the hit-tester at the point p: touch_is_in_margin, then get_key_at_pos
HitTest(p) ==
    IF touch_is_in_margin(p[1], p[2])
    THEN [found |-> FALSE, key |-> NoKey, pos |-> <<0, 0>>, raised |-> ""]
    ELSE get_key_at_pos(p[1], p[2], layout, layout_mode, layout_geometry)

\* C12: for a keyboard of any layout, size, margins and key margins of the
\* bounds, the centre of every rectangle of LINE_r (key index i) is resolved
\* by the hit-tester to the key (r, i) of the current mode, and line 1 is
\* the topmost line.
C12_HitTestInvertsGeometry ==
    /\ DOMAIN layout_geometry.LINE = 1..available_layouts[layout].rows
    /\ \A r \in DOMAIN layout_geometry.LINE :
           \A k \in DOMAIN layout_geometry.LINE[r] :
               LET hit == HitTest(Centre(layout_geometry.LINE[r][k]))
               IN  /\ hit.found
                   /\ hit.pos = <<r, k - 1>>
                   /\ hit.key = LayoutLine(available_layouts[layout], layout_mode, r)[k]
    /\ \A r \in DOMAIN layout_geometry.LINE, q \in DOMAIN layout_geometry.LINE :
           r < q => layout_geometry.LINE[r][1].pos[2] > layout_geometry.LINE[q][1].pos[2]

\* a touch landed on the centre of the last rectangle of line 1 of a small
\* keyboard with wide margins, in shift mode, and holds that key
C12_Witness ==
    /\ size = <<500, 100>>
    /\ margin_hint = <<10, 10, 10, 10>>
    /\ layout_mode = "shift"
    /\ last.op = "on_touch_down"
    /\ \E t \in GeometryTouchIds :
           /\ last.uid = t
           /\ touches[t].ud.has
           /\ touches[t].ud.pos = <<1, Len(layout_geometry.LINE[1]) - 1>>
           /\ HitTest(Centre(layout_geometry.LINE[1][Len(layout_geometry.LINE[1])])).pos
                  = touches[t].ud.pos

\* "Logger.error" is among the effects of the handler
Warned(h) == \E i \in DOMAIN h.effects : h.effects[i] = "Logger.error"

\* C13: a request for a layout name that is not registered ends with the
\* layout 'qwerty', a warning and a keyboard that operates, and a request
\* for a registered name keeps the name, whether the name is requested at
\* construction or later: construction always returns a keyboard, and the
\* layout-load step resolves the name, warns on a fallback and raises nothing.
C13_LayoutFallback ==
    /\ []Constructed
    /\ [][_load_layout =>
             /\ layout' = (IF layout \in Registered THEN layout ELSE "qwerty")
             /\ Warned(last') = (layout \notin Registered)
             /\ last'.raised = ""]_vars

\* no scheduled handler is waiting for the Clock: every change made so far
\* has been processed
Processed == Constructed /\ ~layout_trigger /\ ~mode_trigger

\* C14: once every resize and every change of the key margins, the margins
\* or the layout has been processed, the rectangles of LINE_n are the
\* result of compiling the current hints against the current size and key
\* margins.
C14_PixelsFresh ==
    Processed =>
        /\ layout \in Registered
        /\ layout_geometry.LINE = refresh_keys(layout, layout_geometry.LINE_HINT)

\* C15: a step that changes layout_mode leaves the hints (LINE_HINT_n,
\* U_HINT) and the positions and sizes of the rectangles of LINE_n as they
\* were.
C15_ModeChangeKeepsGeometry ==
    [][layout_mode' # layout_mode =>
          /\ layout_geometry'.U_HINT = layout_geometry.U_HINT
          /\ layout_geometry'.LINE_HINT = layout_geometry.LINE_HINT
          /\ layout_geometry'.LINE = layout_geometry.LINE]_vars

\* C16: the hints are a function of the layout and the margins only: when
\* _load_layout compiles the hints again for the layout and the margins
\* they were compiled for at construction, it produces the same U_HINT and
\* the same LINE_HINT_n, whatever the layout mode and the size are.
C16_HintsOfLayoutAndMargins ==
    [][(_load_layout /\ layout' = layout) =>
          /\ layout_geometry'.U_HINT = layout_geometry.U_HINT
          /\ layout_geometry'.LINE_HINT = layout_geometry.LINE_HINT]_vars

\* the last handler compiled the hints (refresh_keys_hint ran to its end)
Compiled == last.op \in {"__init__", "_load_layout"} /\ last.raised # "KeyError"

\* C17: after the hints are compiled, with unit width (1 - left - right) /
\* cols and unit height (1 - top - bottom) / rows, every key of line r has
\* the unit height as its hint height and bottom + (rows - r) * unit height
\* as its origin y, the first key of a line has origin x = left, and every
\* later key has the origin x of the key before it plus that key's
\* width_units * unit width.  (x over XDen, y over YDen.)
C17_HintLayout ==
    Compiled =>
        LET lay == available_layouts[layout]
            uw == MarginDen - margin_hint[4] - margin_hint[2]
            uh == MarginDen - margin_hint[1] - margin_hint[3]
        IN  /\ DOMAIN layout_geometry.LINE_HINT = 1..lay.rows
            /\ \A r \in 1..lay.rows :
                   LET hints == layout_geometry.LINE_HINT[r]
                       keys == LayoutLine(lay, layout_mode, r)
                   IN  /\ Len(hints) = Len(keys)
                       /\ hints[1].pos[1] = margin_hint[4] * lay.cols
                       /\ \A k \in DOMAIN hints :
                              /\ hints[k].size[2] = uh
                              /\ hints[k].pos[2] = margin_hint[3] * lay.rows + (lay.rows - r) * uh
                              /\ hints[k].size[1] = keys[k].size * uw
                              /\ k > 1 => hints[k].pos[1] =
                                              hints[k - 1].pos[1] + keys[k - 1].size * uw

\* _load_layout compiled the hints of the layout with a gap at the end of
\* line 1, in shift mode, with wide margins
C17_Witness ==
    /\ last.op = "_load_layout"
    /\ last.raised = ""
    /\ layout = "azerty"
    /\ layout_mode = "shift"
    /\ margin_hint = <<10, 10, 10, 10>>
    /\ Len(layout_geometry.LINE_HINT[1]) = 3
    /\ layout_geometry.LINE_HINT[1][3].pos[1] > layout_geometry.LINE_HINT[1][2].pos[1]

\* C18: whenever the hints or the pixels are compiled, the keys are drawn
\* or a point is hit-tested, the selected layout is a registered one: at
\* construction, at a touch-down inside the margins, at a mode change and
\* at the end of the layout-load step, for every interleaving of touches
\* with the layout-load step.
C18_LayoutRegisteredWhenUsed ==
    /\ [](last.op = "__init__" => layout \in Registered)
    /\ [][\A t \in WidgetTouchIds, p \in WidgetPoints :
             (on_touch_down(t, p) /\ collide_point(p[1], p[2])
                 /\ ~touch_is_in_margin(p[1], p[2])) => layout \in Registered]_vars
    /\ [][(_update_layout_mode /\ layout_mode' # layout_mode) => layout \in Registered]_vars
    /\ [][_load_layout => layout' \in Registered]_vars

\* C19: every entry of active_keys, the capslock entry under the reserved
\* id included, is a (line_nb, key_index) of a rectangle of the current
\* LINE_n, and no handler fails while it highlights the active keys.
C19_ActiveKeysInGeometry ==
    /\ \A id \in DOMAIN active_keys :
           /\ active_keys[id][1] \in DOMAIN layout_geometry.LINE
           /\ active_keys[id][2] \in 0..(Len(layout_geometry.LINE[active_keys[id][1]]) - 1)
    /\ last.raised # "LookupError"

\* C20: the touch-up of a touch whose touch-down saved no key on it (it
\* landed in the margin, outside the widget, or on a point of a line that
\* no key covers) leaves active_keys, have_shift, have_capslock and
\* layout_mode as they were, emits nothing and raises nothing, whatever
\* other touches are down.
C20_NoKeyTouchUp ==
    [][\A t \in GeometryTouchIds :
          (on_touch_up(t) /\ ~touches[t].ud.has) =>
              /\ active_keys' = active_keys
              /\ have_shift' = have_shift
              /\ have_capslock' = have_capslock
              /\ layout_mode' = layout_mode
              /\ last'.emitted = <<>>
              /\ last'.effects = <<>>
              /\ last'.raised = ""]_vars

\* a touch the keyboard grabbed without a key went up while another touch
\* holds shift
C20_Witness ==
    /\ last.op = "on_touch_up"
    /\ touches[last.uid].state = "up"
    /\ touches[last.uid].grab
    /\ ~touches[last.uid].ud.has
    /\ have_shift
    /\ \E t \in GeometryTouchIds :
           /\ t # last.uid
           /\ touches[t].state = "down"
           /\ touches[t].ud.has
           /\ t \in DOMAIN active_keys

====
